---- MODULE Spec2Model ----
(***************************************************************************)
(* Model of the daily_mbta_delay_etl DAG                                   *)
(* (MLOps/lab_6_airflow/dags/daily_mbta_delay_etl.py): the five tasks, the *)
(* files they read and write, and the scheduler's handling of task         *)
(* instances (retries, AirflowFailException, upstream_failed).             *)
(*                                                                         *)
(* Python's None and a missing dict key (dict.get) are both the empty      *)
(* tuple None; a present value v is the one-element tuple Some(v).         *)
(***************************************************************************)
EXTENDS Integers, Sequences, FiniteSets, TLC

None == <<>>
Some(v) == <<v>>

(***************************************************************************)
(* Bounds of the model.                                                    *)
(***************************************************************************)
\* Longest "data" list of a payload drawn for the transformer on its own.
MaxPreds == 2
\* DAG runs the scheduler creates in one behaviour.
MaxRuns == 3
\* Largest |loaded_rows| handed to the quality check on its own.
MaxCount == 2
\* Invocations of the transformer on its own on one payload.
MaxCalls == 2
\* Characters of a text handed to text_utils.
MaxText == 5

(***************************************************************************)
(* default_args                                                            *)
(***************************************************************************)
retries == 2

(***************************************************************************)
(* JSON payloads of the MBTA predictions endpoint.                         *)
(***************************************************************************)
Attrs(delay, departure_time, status) ==
    Some([delay |-> delay, departure_time |-> departure_time, status |-> status])

RelTo(id) == Some([data |-> Some([id |-> Some(id)])])

Rels(route, trip) == Some([route |-> route, trip |-> trip])

Pred(attributes, relationships) ==
    [attributes |-> attributes, relationships |-> relationships]

\* A delayed prediction whose route and trip are both given.
PredDelayed ==
    Pred(Attrs(Some(120), Some("t1"), Some("Delayed")),
         Rels(RelTo("CR-Fitchburg"), RelTo("trip1")))
\* A prediction without a delay.
PredNoDelay ==
    Pred(Attrs(None, Some("t2"), None),
         Rels(RelTo("CR-Fitchburg"), RelTo("trip1")))
\* A delay of 0 and no "relationships" at all.
PredZero == Pred(Attrs(Some(0), Some("t3"), None), None)
\* Another route, a trip relationship whose "data" is null, status "NA".
PredOther ==
    Pred(Attrs(Some(90), Some("t4"), Some("NA")),
         Rels(RelTo("CR-Lowell"), Some([data |-> None])))
\* "attributes": null, route relationship null.
PredBare == Pred(None, Rels(None, RelTo("trip2")))

Preds == {PredDelayed, PredNoDelay, PredZero, PredOther, PredBare}

Item(type, id, attributes) ==
    [type |-> type, id |-> id, attributes |-> attributes]

ItemAttrs(long_name, short_name, direction_id, headsign) ==
    Some([long_name |-> long_name, short_name |-> short_name,
          direction_id |-> direction_id, headsign |-> headsign])

IncFull ==
    << Item("route", Some("CR-Fitchburg"),
            ItemAttrs(Some("Fitchburg Line"), Some(""), None, None)),
       Item("trip", Some("trip1"), ItemAttrs(None, None, Some(1), Some("Boston"))) >>
IncShort ==
    << Item("route", Some("CR-Fitchburg"), ItemAttrs(None, Some("FL"), None, None)),
       Item("trip", Some("trip1"), ItemAttrs(None, None, None, Some(""))) >>
IncNoName ==
    << Item("route", Some("CR-Fitchburg"), ItemAttrs(Some(""), None, None, None)),
       Item("route", Some("CR-Lowell"), None),
       Item("trip", Some("trip1"), None) >>
IncDup ==
    << Item("route", Some("CR-Fitchburg"), ItemAttrs(Some("Old"), None, None, None)),
       Item("route", Some("CR-Fitchburg"), ItemAttrs(None, Some(""), None, None)),
       Item("route", None, ItemAttrs(Some("Ghost"), None, None, None)),
       Item("stop", Some("trip1"), ItemAttrs(None, None, Some(0), Some("Nowhere"))) >>

Includeds == {<<>>, IncFull, IncShort, IncNoName, IncDup}

\* A decoded response.  wellformed is FALSE for a JSON document json.load
\* accepts but whose shape the transformer cannot walk (e.g. "data": null).
Payload(data, included) ==
    [wellformed |-> TRUE, data |-> data, included |-> included]

Malformed == [wellformed |-> FALSE, data |-> <<>>, included |-> <<>>]

SeqsUpTo(S, n) == UNION {[1..k -> S] : k \in 0..n}

Payloads == {Payload(d, i) : d \in SeqsUpTo(Preds, MaxPreds), i \in Includeds}

(***************************************************************************)
(* transform_mbta_data, lines 112-176: the rows and the filter.            *)
(***************************************************************************)
\* x or y
PyOr(x, y) == IF x # None /\ x # Some("") THEN x ELSE y

\* (d or {}).get(key) for an optional dict d
Get(d, key) == IF d = None THEN None ELSE d[1][key]

\* line 127 without its "or short_name"
RouteNameNoShort(attrs) == Get(attrs, "long_name")

\* line 127
RouteName(attrs) == PyOr(Get(attrs, "long_name"), Get(attrs, "short_name"))

RouteEntry(item) ==
    [route_id |-> item.id, route_name |-> RouteName(item.attributes)]

TripEntry(item) ==
    [trip_id |-> item.id,
     direction_id |-> Get(item.attributes, "direction_id"),
     headsign |-> Get(item.attributes, "headsign")]

\* The dict the loop of lines 119-134 has built after the first n items:
\* a later item with the same id replaces an earlier one.
RECURSIVE Lookup(_, _, _)
Lookup(included, type, n) ==
    IF n = 0 THEN <<>>
    ELSE LET item == included[n]
             rest == Lookup(included, type, n - 1)
         IN IF item.type = type
            THEN IF type = "route"
                 THEN (item.id :> RouteEntry(item)) @@ rest
                 ELSE (item.id :> TripEntry(item)) @@ rest
            ELSE rest

route_lookup(included) == Lookup(included, "route", Len(included))
trip_lookup(included) == Lookup(included, "trip", Len(included))

\* a lookup that answers a missing key with an entry it holds
InfoGetDefault(lookup, key, field) ==
    IF key \in DOMAIN lookup THEN lookup[key][field]
    ELSE IF DOMAIN lookup # {}
         THEN lookup[CHOOSE k \in DOMAIN lookup : TRUE][field]
         ELSE None

\* lookup.get(key, {}).get(field)
InfoGet(lookup, key, field) ==
    IF key \in DOMAIN lookup THEN lookup[key][field] ELSE None

\* (rel.get(name, {}) or {}).get("data") or {}).get("id"), lines 140-146
RelId(relationships, name) ==
    LET rel == Get(relationships, name)
        dat == Get(rel, "data")
    IN Get(dat, "id")

\* delay_seconds / 60.0 as whole minutes and sixtieths of a minute
DivBy60(d) == [whole |-> d \div 60, sixtieths |-> d % 60]

\* lines 138-170: the row of one prediction
RowOf(pred, included, execution_date) ==
    LET route_id == RelId(pred.relationships, "route")
        trip_id == RelId(pred.relationships, "trip")
        delay_seconds == Get(pred.attributes, "delay")
    IN [route_id |-> route_id,
        route_name |-> InfoGet(route_lookup(included), route_id, "route_name"),
        trip_id |-> trip_id,
        headsign |-> InfoGet(trip_lookup(included), trip_id, "headsign"),
        direction_id |-> InfoGet(trip_lookup(included), trip_id, "direction_id"),
        status |-> Get(pred.attributes, "status"),
        delay_seconds |-> delay_seconds,
        delay_minutes |-> IF delay_seconds # None
                          THEN Some(DivBy60(delay_seconds[1]))
                          ELSE None,
        departure_time |-> Get(pred.attributes, "departure_time"),
        execution_date |-> Some(execution_date)]

Rows(payload, execution_date) ==
    [i \in 1..Len(payload.data) |->
        RowOf(payload.data[i], payload.included, execution_date)]

\* A DataFrame: pd.DataFrame([]) has no columns, pd.DataFrame(rows) has the
\* ten of the row dicts.
DataFrame(rows) == [columns |-> rows # <<>>, rows |-> rows]

\* a filter on the truth of delay_seconds, which drops a delay of 0
DropFalsy(row) == row.delay_seconds # None /\ row.delay_seconds # Some(0)

\* df["delay_seconds"].notna(), line 176
notna(row) == row.delay_seconds # None

\* lines 172-176
Filtered(df) ==
    IF df.rows # <<>>
    THEN [columns |-> df.columns, rows |-> SelectSeq(df.rows, notna)]
    ELSE df

\* The DataFrame transform_mbta_data writes, lines 112-176.
Transform(payload, execution_date) ==
    Filtered(DataFrame(Rows(payload, execution_date)))

(***************************************************************************)
(* DataFrame.to_csv(index=False) and pd.read_csv.  A file is its header    *)
(* (FALSE: the frame had no columns and the file holds an empty line) and  *)
(* its lines; a cell is None when its text is empty.                       *)
(***************************************************************************)
TextFields == {"route_id", "route_name", "trip_id", "headsign", "status",
               "departure_time", "execution_date"}

Fields == TextFields \cup {"direction_id", "delay_seconds", "delay_minutes"}

\* to_csv writes None/NaN and "" alike as an empty cell
CellOut(f, v) == IF f \in TextFields /\ v = Some("") THEN None ELSE v

\* read_csv's default na_values
NaValues == {"", "#N/A", "#N/A N/A", "#NA", "-1.#IND", "-1.#QNAN", "-NaN",
             "-nan", "1.#IND", "1.#QNAN", "<NA>", "N/A", "NA", "NULL", "NaN",
             "None", "n/a", "nan", "null"}

CellIn(f, c) ==
    IF f \in TextFields /\ c # None /\ c[1] \in NaValues THEN None ELSE c

to_csv(df) ==
    [header |-> df.columns,
     lines |-> [i \in 1..Len(df.rows) |->
                   [f \in Fields |-> CellOut(f, df.rows[i][f])]]]

\* read_csv raises EmptyDataError on a file without a header line
Readable(file) == file.header

read_csv(file) ==
    [columns |-> TRUE,
     rows |-> [i \in 1..Len(file.lines) |->
                  [f \in Fields |-> CellIn(f, file.lines[i][f])]]]

\* a write in append mode: the lines go after those of the file there is
WriteCsvAppend(existing, file) ==
    IF existing = None THEN Some(file)
    ELSE Some([header |-> existing[1].header,
               lines |-> existing[1].lines \o file.lines])

\* df.to_csv(path, index=False), lines 179 and 201: the file at the path
\* (existing, None when there is none) is replaced
WriteCsv(existing, file) == Some(file)

\* a write that leaves a file that is already there alone
DumpJsonExclusive(existing, payload) ==
    IF existing = None THEN Some(payload) ELSE existing

\* open(raw_path, "w") and json.dump(payload, f), lines 97-98
DumpJson(existing, payload) == Some(payload)

\* one raw file for every run
RawPathFixed(execution_date) == "d1"

\* raw_path, line 96: the key of the raw file among those under raw/
RawPath(execution_date) == execution_date

\* one clean file for every run
CleanPathFixed(execution_date) == "d1"

\* clean_path, line 178: the key of the clean file among those under clean/
CleanPath(execution_date) == execution_date

\* the size of the warehouse after the append
LoadedTotal(df_clean, df_all) == Len(df_all.rows)

\* loaded_rows = len(df_clean), line 193
LoadedRows(df_clean, df_all) == Len(df_clean.rows)

\* the new rows that are not in the warehouse yet
ConcatDedup(df_existing, df_clean) ==
    [columns |-> TRUE,
     rows |-> df_existing.rows \o
              SelectSeq(df_clean.rows,
                        LAMBDA r : \A i \in 1..Len(df_existing.rows) :
                                      df_existing.rows[i] # r)]

\* the new rows replace the warehouse
ConcatOverwrite(df_existing, df_clean) == df_clean

\* the new rows go before the existing ones
ConcatPrepend(df_existing, df_clean) ==
    [columns |-> TRUE, rows |-> df_clean.rows \o df_existing.rows]

\* pd.concat([df_existing, df_clean], ignore_index=True), line 197
concat(df_existing, df_clean) ==
    [columns |-> TRUE, rows |-> df_existing.rows \o df_clean.rows]

(***************************************************************************)
(* mbta_data_quality_check, lines 209-223: never raises, picks a message.  *)
(***************************************************************************)
\* a hard gate: no loaded rows is an error
QualityStrict(loaded_rows) ==
    IF loaded_rows <= 0
    THEN [raised |-> TRUE, notice |-> "none", count |-> loaded_rows]
    ELSE [raised |-> FALSE, notice |-> "passed", count |-> loaded_rows]

QualityCheck(loaded_rows) ==
    IF loaded_rows <= 0
    THEN [raised |-> FALSE, notice |-> "no_delays", count |-> loaded_rows]
    ELSE [raised |-> FALSE, notice |-> "passed", count |-> loaded_rows]

(***************************************************************************)
(* The DAG: start >> api_ok >> raw >> clean >> loaded_rows >> dq >> end    *)
(* (lines 226-235), its files under DATA_DIR, and the responses of the     *)
(* MBTA API.                                                               *)
(***************************************************************************)
Tasks == << "start", "check_mbta_api", "extract_mbta_predictions",
            "transform_mbta_data", "load_mbta_to_warehouse",
            "mbta_data_quality_check", "end" >>

TaskIds == {Tasks[i] : i \in 1..Len(Tasks)}

\* The tasks default_args' retry policy is about: the four that can raise.
RetryStages == {"check_mbta_api", "extract_mbta_predictions",
                "transform_mbta_data", "load_mbta_to_warehouse"}

Position(t) == CHOOSE i \in 1..Len(Tasks) : Tasks[i] = t

\* The dependencies the task arguments alone would give (lines 229-233):
\* extract_mbta_predictions() takes nothing from check_mbta_api().
UpstreamByArguments(t) ==
    IF Position(t) \in {1, 2, 3} THEN {} ELSE {Tasks[Position(t) - 1]}

\* line 235
Upstream(t) == IF Position(t) = 1 THEN {} ELSE {Tasks[Position(t) - 1]}

\* execution_date of a run: the key of its raw and clean files
RunIds == {"d1", "d2"}

\* DAG runs that may be in flight side by side
Slots == {1, 2}

\* What requests.get does: raise, or return a response whose body may or
\* may not decode as JSON (body = None: resp.json() raises).
Response(raised, status_code, body) ==
    [raised |-> raised, status_code |-> status_code, body |-> body]

\* The scenario of three predictions: a delay of 120 with route and trip,
\* no delay, a delay of 0 without relationships.
ScenarioPayload == Payload(<<PredDelayed, PredNoDelay, PredZero>>, IncFull)

FeedPayloads ==
    { ScenarioPayload,
      Payload(<<PredNoDelay>>, IncFull),
      Payload(<<>>, <<>>),
      Payload(<<PredOther>>, IncNoName),
      Malformed }

CheckResponses ==
    { Response(TRUE, 0, None), Response(FALSE, 503, None),
      Response(FALSE, 200, None) }

ExtractResponses ==
    { Response(TRUE, 0, None), Response(FALSE, 503, None),
      Response(FALSE, 200, None) }
    \cup { Response(FALSE, 200, Some(p)) : p \in FeedPayloads }

VARIABLES
    raw,         \* DATA_DIR/raw/mbta_predictions_<execution_date>.json
    clean,       \* DATA_DIR/clean/mbta_delays_<execution_date>.csv
    warehouse,   \* DATA_DIR/mbta_delay_warehouse.csv
    dr,          \* the DAG run of each slot: task instances and XComs
    created,     \* DAG runs created so far
    loads,       \* line count of the clean file of each completed load
    t_in,        \* transformer on its own: the payload
    t_out,       \* transformer on its own: the clean file it wrote
    t_calls,     \* transformer on its own: invocations so far
    text,        \* text_utils: the text
    pal,         \* text_utils: what is_palindrome(text) returned
    mcw          \* text_utils: what most_common_word(text) returned

\* The variables of the functions run on their own.
alone == <<t_in, t_out, t_calls, text, pal, mcw>>

vars == <<raw, clean, warehouse, dr, created, loads, alone>>

NoRun ==
    [id |-> None, run |-> 0, state |-> "none",
     ti |-> [t \in TaskIds |-> "none"],
     try_number |-> [t \in TaskIds |-> 0],
     error |-> "none",
     raw_path |-> None, clean_path |-> None, loaded_rows |-> None,
     df_all |-> None, notice |-> "none",
     payload |-> None, w0 |-> None]

\* payload: the response extract_mbta_predictions decoded last (line 94);
\* w0: the warehouse file as it was when the run was created.
NewRun(d, n) == [NoRun EXCEPT !.id = Some(d), !.run = n, !.state = "running"]

Finished == {"success", "failed", "upstream_failed"}

\* trigger_rule all_done
TriggerAllDone(states) == states \subseteq Finished

\* trigger_rule all_success, the default of every task of the DAG
TriggerRule(states) == states \subseteq {"success"}

\* The state of a task instance whose attempt try_number raised:
\* AirflowFailException (fail_fast) fails it at once, any other exception
\* leaves it up for retry while attempts remain (default_args, line 31).
AfterFailure(fail_fast, try_number) ==
    IF fail_fast THEN "failed"
    ELSE IF try_number <= retries THEN "up_for_retry" ELSE "failed"

Raise(r, t, fail_fast, error) ==
    [r EXCEPT !.ti[t] = AfterFailure(fail_fast, r.try_number[t]),
              !.error = error, !.df_all = None]

Succeed(r, t) == [r EXCEPT !.ti[t] = "success"]

InFlight(s) == dr[s].state = "running"

Running(s, t) == InFlight(s) /\ dr[s].ti[t] = "running"

Pipeline == <<raw, clean, warehouse, dr, created, loads>>

\* a lock on the warehouse file, held from the read to the write of a load
WarehouseLockHeld(s) == \E o \in Slots \ {s} : dr[o].df_all # None

\* Whether the run of slot s must wait for another run's load before it
\* reads the warehouse: lines 195-201 read and write WAREHOUSE_PATH with no
\* lock taken.
WarehouseLock(s) == FALSE

Init ==
    /\ raw = [d \in RunIds |-> None]
    /\ clean = [d \in RunIds |-> None]
    /\ warehouse = None
    /\ dr = [s \in Slots |-> NoRun]
    /\ created = 0
    /\ loads = <<>>
    /\ t_in = Payload(<<>>, <<>>)
    /\ t_out = None
    /\ t_calls = 0
    /\ text = <<>>
    /\ pal = None
    /\ mcw = None

\* The scheduler creates the run of execution_date d in slot s; with
\* exclusive, only while no other run is in flight.
CreateDagRun(s, d, exclusive) ==
    /\ created < MaxRuns
    /\ ~InFlight(s)
    /\ exclusive => \A o \in Slots : ~InFlight(o)
    /\ dr' = [dr EXCEPT ![s] = [NewRun(d, created + 1) EXCEPT !.w0 = warehouse]]
    /\ created' = created + 1
    /\ UNCHANGED <<raw, clean, warehouse, loads, alone>>

\* The scheduler queues task t once its trigger rule is met; an
\* EmptyOperator (start, end) is set to success without being run.
Schedule(s, t) ==
    /\ InFlight(s)
    /\ IF dr[s].ti[t] = "up_for_retry"
       THEN TRUE
       ELSE /\ dr[s].ti[t] = "none"
            /\ TriggerRule({dr[s].ti[u] : u \in Upstream(t)})
    /\ dr' = [dr EXCEPT ![s] =
                IF t \in {"start", "end"}
                THEN Succeed(@, t)
                ELSE [@ EXCEPT !.ti[t] = "running",
                               !.try_number[t] = @ + 1]]
    /\ UNCHANGED <<raw, clean, warehouse, created, loads, alone>>

\* A task whose upstream failed is never run.
UpstreamFailed(s, t) ==
    /\ InFlight(s)
    /\ dr[s].ti[t] = "none"
    /\ \E u \in Upstream(t) : dr[s].ti[u] \in {"failed", "upstream_failed"}
    /\ dr' = [dr EXCEPT ![s].ti[t] = "upstream_failed"]
    /\ UNCHANGED <<raw, clean, warehouse, created, loads, alone>>

\* The run ends once no task is left to run: success if its leaf, end,
\* succeeded, failed otherwise.
UpdateState(s) ==
    /\ InFlight(s)
    /\ \A t \in TaskIds : dr[s].ti[t] \in Finished
    /\ dr' = [dr EXCEPT ![s].state =
                IF dr[s].ti["end"] = "success" THEN "success" ELSE "failed"]
    /\ UNCHANGED <<raw, clean, warehouse, created, loads, alone>>

\* lines 50-68
check_mbta_api(s) ==
    /\ Running(s, "check_mbta_api")
    /\ \E resp \in CheckResponses :
        dr' = [dr EXCEPT ![s] =
                IF resp.raised \/ resp.status_code # 200
                THEN Raise(@, "check_mbta_api", TRUE, "AirflowFailException")
                ELSE Succeed(@, "check_mbta_api")]
    /\ UNCHANGED <<raw, clean, warehouse, created, loads, alone>>

\* lines 74-100
extract_mbta_predictions(s) ==
    /\ Running(s, "extract_mbta_predictions")
    /\ \E resp \in ExtractResponses :
        LET t == "extract_mbta_predictions"
            execution_date == dr[s].id[1]
        IN IF resp.raised \/ resp.status_code # 200
           THEN /\ dr' = [dr EXCEPT ![s] =
                            Raise(@, t, TRUE, "AirflowFailException")]
                /\ raw' = raw
           ELSE IF resp.body = None
           THEN /\ dr' = [dr EXCEPT ![s] = Raise(@, t, FALSE, "JSONDecodeError")]
                /\ raw' = raw
           ELSE /\ raw' = [raw EXCEPT ![RawPath(execution_date)] =
                                          DumpJson(@, resp.body[1])]
                /\ dr' = [dr EXCEPT ![s] =
                            [Succeed(@, t) EXCEPT
                                !.raw_path = Some(RawPath(execution_date)),
                                !.payload = resp.body]]
    /\ UNCHANGED <<clean, warehouse, created, loads, alone>>

\* lines 106-181
transform_mbta_data(s) ==
    /\ Running(s, "transform_mbta_data")
    /\ LET t == "transform_mbta_data"
           execution_date == dr[s].id[1]
           raw_path == dr[s].raw_path[1]
           payload == raw[raw_path][1]
       IN IF raw[raw_path] = None \/ ~payload.wellformed
          THEN /\ dr' = [dr EXCEPT ![s] = Raise(@, t, FALSE, "AttributeError")]
               /\ clean' = clean
          ELSE /\ clean' = [clean EXCEPT ![CleanPath(execution_date)] =
                              WriteCsv(@, to_csv(Transform(payload, execution_date)))]
               /\ dr' = [dr EXCEPT ![s] =
                           [Succeed(@, t) EXCEPT
                               !.clean_path = Some(CleanPath(execution_date))]]
    /\ UNCHANGED <<raw, warehouse, created, loads, alone>>

\* lines 187-199: the reads of load_mbta_to_warehouse
load_read(s) ==
    /\ Running(s, "load_mbta_to_warehouse")
    /\ dr[s].df_all = None
    /\ ~WarehouseLock(s)
    /\ LET t == "load_mbta_to_warehouse"
           file == clean[dr[s].clean_path[1]]
       IN IF file = None \/ ~Readable(file[1])
             \/ (warehouse # None /\ ~Readable(warehouse[1]))
          THEN dr' = [dr EXCEPT ![s] = Raise(@, t, FALSE, "EmptyDataError")]
          ELSE LET df_clean == read_csv(file[1])
                   df_all == IF warehouse # None
                             THEN concat(read_csv(warehouse[1]), df_clean)
                             ELSE df_clean
               IN dr' = [dr EXCEPT ![s] =
                           [@ EXCEPT !.df_all = Some(df_all),
                                     !.loaded_rows = Some(LoadedRows(df_clean, df_all))]]
    /\ UNCHANGED <<raw, clean, warehouse, created, loads, alone>>

\* lines 201-203: the write of load_mbta_to_warehouse and its return
load_write(s) ==
    /\ Running(s, "load_mbta_to_warehouse")
    /\ dr[s].df_all # None
    /\ warehouse' = WriteCsv(warehouse, to_csv(dr[s].df_all[1]))
    /\ dr' = [dr EXCEPT ![s] =
                [Succeed(@, "load_mbta_to_warehouse") EXCEPT !.df_all = None]]
    /\ loads' = Append(loads, Len(clean[dr[s].clean_path[1]][1].lines))
    /\ UNCHANGED <<raw, clean, created, alone>>

\* lines 209-223
mbta_data_quality_check(s) ==
    /\ Running(s, "mbta_data_quality_check")
    /\ LET t == "mbta_data_quality_check"
           report == QualityCheck(dr[s].loaded_rows[1])
       IN dr' = [dr EXCEPT ![s] =
                   IF report.raised
                   THEN Raise(@, t, FALSE, "Exception")
                   ELSE [Succeed(@, t) EXCEPT !.notice = report.notice]]
    /\ UNCHANGED <<raw, clean, warehouse, created, loads, alone>>

\* One step of the run in slot s.
RunStep(s) ==
    \/ \E t \in TaskIds : Schedule(s, t)
    \/ \E t \in TaskIds : UpstreamFailed(s, t)
    \/ UpdateState(s)
    \/ check_mbta_api(s)
    \/ extract_mbta_predictions(s)
    \/ transform_mbta_data(s)
    \/ load_read(s)
    \/ load_write(s)
    \/ mbta_data_quality_check(s)

\* One run at a time: the schedule of the DAG with no run overlapping the
\* next.
Next ==
    \/ \E d \in RunIds : CreateDagRun(1, d, TRUE)
    \/ RunStep(1)

Spec == Init /\ [][Next]_vars

(***************************************************************************)
(* Runs that overlap.  The DAG sets no max_active_runs (lines 35-42), so   *)
(* the run of one execution_date can be in flight while the run of another *)
(* is.  Two such runs stand with their transform done, each on a payload   *)
(* of the feed, before the first load; from there the tasks of the two     *)
(* interleave step by step.                                                *)
(***************************************************************************)
AfterTransform(d, n, p) ==
    [NewRun(d, n) EXCEPT
        !.ti = [t \in TaskIds |->
                  IF Position(t) <= Position("transform_mbta_data")
                  THEN "success" ELSE "none"],
        !.try_number = [t \in TaskIds |->
                          IF t \in RetryStages /\ Position(t) <= Position("transform_mbta_data")
                          THEN 1 ELSE 0],
        !.raw_path = Some(RawPath(d)), !.clean_path = Some(CleanPath(d)),
        !.payload = Some(p)]

InitOverlap ==
    /\ \E p1 \in FeedPayloads \ {Malformed} :
       \E p2 \in FeedPayloads \ {Malformed} :
          LET p == [d \in RunIds |-> IF d = "d1" THEN p1 ELSE p2]
          IN /\ raw = [d \in RunIds |-> DumpJson(None, p[d])]
             /\ clean = [d \in RunIds |->
                           WriteCsv(None, to_csv(Transform(p[d], d)))]
             /\ dr = [s \in Slots |->
                        IF s = 1 THEN AfterTransform("d1", 1, p["d1"])
                        ELSE AfterTransform("d2", 2, p["d2"])]
    /\ warehouse = None
    /\ created = 2
    /\ loads = <<>>
    /\ t_in = Payload(<<>>, <<>>)
    /\ t_out = None
    /\ t_calls = 0
    /\ text = <<>>
    /\ pal = None
    /\ mcw = None

NextOverlap ==
    \E s \in Slots :
        \/ \E t \in TaskIds : Schedule(s, t)
        \/ \E t \in TaskIds : UpstreamFailed(s, t)
        \/ UpdateState(s)
        \/ load_read(s)
        \/ load_write(s)
        \/ mbta_data_quality_check(s)

SpecOverlap == InitOverlap /\ [][NextOverlap]_vars

(***************************************************************************)
(* The transformer and the quality check on their own: the payload is any  *)
(* of Payloads, and the run of slot 1 stands after a load that returned    *)
(* any count of -MaxCount..MaxCount.                                       *)
(***************************************************************************)
AfterLoad(n) ==
    [NewRun("d1", 1) EXCEPT
        !.ti = [t \in TaskIds |->
                  IF Position(t) <= Position("load_mbta_to_warehouse")
                  THEN "success" ELSE "none"],
        !.try_number = [t \in TaskIds |-> IF t \in RetryStages THEN 1 ELSE 0],
        !.raw_path = Some("d1"), !.clean_path = Some("d1"),
        !.loaded_rows = Some(n)]

InitFn ==
    /\ raw = [d \in RunIds |-> None]
    /\ clean = [d \in RunIds |-> None]
    /\ warehouse = None
    /\ \E n \in -MaxCount..MaxCount :
          dr = [s \in Slots |-> IF s = 1 THEN AfterLoad(n) ELSE NoRun]
    /\ created = 1
    /\ loads = <<>>
    /\ t_in \in Payloads
    /\ t_out = None
    /\ t_calls = 0
    /\ text = <<>>
    /\ pal = None
    /\ mcw = None

\* transform_mbta_data on t_in, for the first time or again: the clean
\* file it writes at the path of execution_date d1
ApplyTransform ==
    /\ t_calls < MaxCalls
    /\ t_out' = WriteCsv(t_out, to_csv(Transform(t_in, "d1")))
    /\ t_calls' = t_calls + 1
    /\ UNCHANGED <<Pipeline, t_in, text, pal, mcw>>

NextFn ==
    \/ t_calls = 0 /\ ApplyTransform
    \/ \E t \in TaskIds : Schedule(1, t)
    \/ mbta_data_quality_check(1)
    \/ UpdateState(1)

SpecFn == InitFn /\ [][NextFn]_vars

\* The transformer invoked up to MaxCalls times on one raw payload, as the
\* attempts of a task instance are.
InitAgain ==
    /\ raw = [d \in RunIds |-> None]
    /\ clean = [d \in RunIds |-> None]
    /\ warehouse = None
    /\ dr = [s \in Slots |-> NoRun]
    /\ created = 0
    /\ loads = <<>>
    /\ t_in \in Payloads
    /\ t_out = None
    /\ t_calls = 0
    /\ text = <<>>
    /\ pal = None
    /\ mcw = None

SpecAgain == InitAgain /\ [][ApplyTransform]_vars

(***************************************************************************)
(* text_utils.  A text is a sequence of characters; the characters are the *)
(* kinds the two regular expressions tell apart: a lower-case and an       *)
(* upper-case ASCII letter, an ASCII digit, the underscore, a space, a     *)
(* comma, the apostrophe, and a letter outside ASCII (U+00E9, e acute).    *)
(***************************************************************************)
PalChars == {"a", "A", "1", " ", ",", "U+00E9"}

WordChars == {"a", "A", "1", "_", " ", ",", "'"}

TextsOver(chars) == UNION {[1..n -> chars] : n \in 0..MaxText}

\* str.lower(), one character
lower(c) == IF c = "A" THEN "a" ELSE c

Lower(t) == [i \in 1..Len(t) |-> lower(t[i])]

\* \s
Whitespace == {" "}

\* \w of a str pattern: letters of any script, digits and the underscore
WordChar == {"a", "A", "1", "_", "U+00E9"}

\* [a-z0-9]
AZ09 == {"a", "1"}

Reverse(t) == [i \in 1..Len(t) |-> t[Len(t) + 1 - i]]

RECURSIVE lstrip(_)
lstrip(t) ==
    IF t # <<>> /\ t[1] \in Whitespace THEN lstrip(Tail(t)) ELSE t

\* str.strip()
strip(t) == Reverse(lstrip(Reverse(lstrip(t))))

\* re.sub(r"\s+", " ", t)
RECURSIVE SubSpaces(_)
SubSpaces(t) ==
    IF t = <<>> THEN <<>>
    ELSE IF t[1] \in Whitespace THEN <<" ">> \o SubSpaces(lstrip(t))
    ELSE <<t[1]>> \o SubSpaces(Tail(t))

\* text_utils.py lines 4-5
normalize(t) == SubSpaces(Lower(strip(t)))

\* the greedy \w+ at the head of t
RECURSIVE Run(_)
Run(t) ==
    IF t # <<>> /\ t[1] \in WordChar THEN <<t[1]>> \o Run(Tail(t)) ELSE <<>>

Drop(t, n) == SubSeq(t, n + 1, Len(t))

\* re.findall(r"\b\w+'\w+|\b\w+\b", t): the matches from left to right,
\* none overlapping; at the start of a run of word characters the first
\* alternative is tried before the second.
RECURSIVE findall(_)
findall(t) ==
    IF t = <<>> THEN <<>>
    ELSE LET w == Run(t)
             rest == Drop(t, Len(w))
         IN IF w = <<>> THEN findall(Tail(t))
            ELSE IF rest # <<>> /\ rest[1] = "'" /\ Run(Tail(rest)) # <<>>
            THEN LET v == Run(Tail(rest))
                 IN <<w \o <<"'">> \o v>> \o findall(Drop(rest, 1 + Len(v)))
            ELSE <<w>> \o findall(rest)

\* Counter(tokens)[w]
Count(tokens, w) == Cardinality({i \in 1..Len(tokens) : tokens[i] = w})

\* the last of the most frequent tokens
most_common_last(tokens) ==
    tokens[CHOOSE i \in 1..Len(tokens) :
              /\ \A j \in 1..Len(tokens) :
                    Count(tokens, tokens[j]) <= Count(tokens, tokens[i])
              /\ \A j \in (i + 1)..Len(tokens) :
                    Count(tokens, tokens[j]) < Count(tokens, tokens[i])]

\* Counter(tokens).most_common(1)[0][0]: the first key, in insertion order,
\* of the greatest count
most_common(tokens) ==
    tokens[CHOOSE i \in 1..Len(tokens) :
              /\ \A j \in 1..Len(tokens) :
                    Count(tokens, tokens[j]) <= Count(tokens, tokens[i])
              /\ \A j \in 1..(i - 1) :
                    Count(tokens, tokens[j]) < Count(tokens, tokens[i])]

\* text_utils.py lines 14-16
is_palindrome(t) ==
    LET s == SelectSeq(Lower(t), LAMBDA c : c \in AZ09)
    IN s = Reverse(s)

\* text_utils.py lines 18-20
most_common_word(t) ==
    LET tokens == findall(normalize(t))
    IN IF tokens # <<>> THEN Some(most_common(tokens)) ELSE None

InitPal ==
    /\ raw = [d \in RunIds |-> None]
    /\ clean = [d \in RunIds |-> None]
    /\ warehouse = None
    /\ dr = [s \in Slots |-> NoRun]
    /\ created = 0
    /\ loads = <<>>
    /\ t_in = Payload(<<>>, <<>>)
    /\ t_out = None
    /\ t_calls = 0
    /\ text \in TextsOver(PalChars)
    /\ pal = None
    /\ mcw = None

CallIsPalindrome ==
    /\ pal = None
    /\ pal' = Some(is_palindrome(text))
    /\ UNCHANGED <<Pipeline, t_in, t_out, t_calls, text, mcw>>

SpecPal == InitPal /\ [][CallIsPalindrome]_vars

InitWord ==
    /\ raw = [d \in RunIds |-> None]
    /\ clean = [d \in RunIds |-> None]
    /\ warehouse = None
    /\ dr = [s \in Slots |-> NoRun]
    /\ created = 0
    /\ loads = <<>>
    /\ t_in = Payload(<<>>, <<>>)
    /\ t_out = None
    /\ t_calls = 0
    /\ text \in TextsOver(WordChars)
    /\ pal = None
    /\ mcw = None

CallMostCommonWord ==
    /\ mcw = None
    /\ mcw' = Some(most_common_word(text))
    /\ UNCHANGED <<Pipeline, t_in, t_out, t_calls, text, pal>>

SpecWord == InitWord /\ [][CallMostCommonWord]_vars

(***************************************************************************)
(* Properties.                                                             *)
(***************************************************************************)
IsPrefix(a, b) == Len(a) <= Len(b) /\ SubSeq(b, 1, Len(a)) = a

RECURSIVE Sum(_)
Sum(q) == IF q = <<>> THEN 0 ELSE q[1] + Sum(Tail(q))

Later(t) == {u \in TaskIds : Position(u) > Position(t)}

\* The rows a reader of the warehouse sees.
WarehouseRows == IF warehouse = None THEN <<>> ELSE read_csv(warehouse[1]).rows

\* The rows a reader of the clean file of execution_date d sees.
CleanRows(d) == read_csv(clean[d][1]).rows

\* C1: a stage of the four that has failed for good was attempted exactly
\* 1 + retries times.
C1_RetryExhaustion ==
    \A s \in Slots : \A t \in RetryStages :
        dr[s].ti[t] = "failed" => dr[s].try_number[t] = 1 + retries

\* C2: once a task has failed no later task of the run is ever attempted,
\* the run does not succeed and, while it is still running, has a step
\* left to take towards failed; a task that failed stays failed, and a
\* failed run changes no more.
C2_FailedHalts ==
    /\ [](\A s \in Slots : \A t \in TaskIds :
            dr[s].ti[t] = "failed" =>
               /\ dr[s].state \in {"running", "failed"}
               /\ dr[s].state = "running" =>
                     ENABLED (UpdateState(s) \/ \E u \in TaskIds : UpstreamFailed(s, u))
               /\ \A u \in Later(t) :
                     /\ dr[s].try_number[u] = 0
                     /\ dr[s].ti[u] \in {"none", "upstream_failed"})
    /\ [][\A s \in Slots : dr'[s].run = dr[s].run =>
            /\ dr[s].state = "failed" => dr'[s] = dr[s]
            /\ \A t \in TaskIds :
                  dr[s].ti[t] = "failed" =>
                     /\ dr'[s].ti[t] = "failed"
                     /\ dr'[s].try_number[t] = dr[s].try_number[t]]_vars

C2_Witness ==
    \E s \in Slots :
        /\ dr[s].state = "failed"
        /\ dr[s].ti["transform_mbta_data"] = "failed"
        /\ dr[s].ti["load_mbta_to_warehouse"] = "upstream_failed"
        /\ dr[s].ti["end"] = "upstream_failed"

\* C3: at most one task of a run is running, and a task that has been
\* started (or, for start and end, set to success) has its predecessor in
\* the chain in state success.
C3_StrictOrder ==
    \A s \in Slots :
        /\ Cardinality({t \in TaskIds : dr[s].ti[t] = "running"}) <= 1
        /\ \A i \in 2..Len(Tasks) :
              (dr[s].try_number[Tasks[i]] > 0 \/ dr[s].ti[Tasks[i]] = "success")
                 => dr[s].ti[Tasks[i - 1]] = "success"

C3_Witness ==
    \E s \in Slots :
        /\ dr[s].ti["mbta_data_quality_check"] = "running"
        /\ dr[s].ti["load_mbta_to_warehouse"] = "success"

\* C4: the warehouse is absent until the first load, and then holds as
\* many rows as the clean files of the completed loads held together.
C4_RowCountIsSum ==
    /\ warehouse = None <=> loads = <<>>
    /\ warehouse # None => Len(warehouse[1].lines) = Sum(loads)

C4_Witness ==
    /\ Len(loads) = 2
    /\ loads[1] > 0
    /\ loads[2] > 0
    /\ loads[1] # loads[2]

HasDelay(pred) == Get(pred.attributes, "delay") # None

\* The predictions of t_in that carry a delay, in source order.
Delayed == SelectSeq(t_in.data, HasDelay)

\* The relationship named name of pred is absent or null, at any level.
NoRelationship(pred, name) ==
    \/ pred.relationships = None
    \/ pred.relationships[1][name] = None
    \/ pred.relationships[1][name][1].data = None
    \/ pred.relationships[1][name][1].data[1].id = None

\* The included entities of a type whose id is id.
Matching(type, id) ==
    {j \in 1..Len(t_in.included) :
        t_in.included[j].type = type /\ t_in.included[j].id = id}

\* The entity a lookup by id finds: the last one of its type with that id.
Found(type, id) ==
    t_in.included[CHOOSE j \in Matching(type, id) :
                     \A k \in Matching(type, id) : k <= j]

Present(v) == v # None /\ v # Some("")

\* C6: the lines of the clean file are the predictions with a delay, in
\* source order, each with that delay; none has an empty delay_seconds.
C6_FilterInvariant ==
    t_out # None =>
        LET lines == t_out[1].lines
        IN /\ Len(lines) = Len(Delayed)
           /\ \A k \in 1..Len(lines) :
                 /\ lines[k].delay_seconds # None
                 /\ lines[k].delay_seconds = Get(Delayed[k].attributes, "delay")
                 /\ lines[k].departure_time =
                       Get(Delayed[k].attributes, "departure_time")

C6_Witness ==
    /\ t_out # None
    /\ Len(t_in.data) = 2
    /\ ~HasDelay(t_in.data[1])
    /\ Len(t_out[1].lines) = 1
    /\ t_out[1].lines[1].delay_seconds = Some(0)

\* C7: a line of a prediction without a route (trip) relationship has an
\* empty route_id (trip_id); a line whose route id (trip id) matches no
\* included route (trip) has an empty route_name (headsign, direction_id);
\* every prediction with a delay has its line.
C7_LookupResilience ==
    t_out # None =>
        LET lines == t_out[1].lines
        IN /\ Len(lines) = Len(Delayed)
           /\ \A k \in 1..Len(lines) :
                 /\ NoRelationship(Delayed[k], "route") => lines[k].route_id = None
                 /\ NoRelationship(Delayed[k], "trip") => lines[k].trip_id = None
                 /\ Matching("route", lines[k].route_id) = {}
                       => lines[k].route_name = None
                 /\ Matching("trip", lines[k].trip_id) = {}
                       => /\ lines[k].headsign = None
                          /\ lines[k].direction_id = None

C7_Witness ==
    /\ t_out # None
    /\ Len(t_out[1].lines) = 2
    /\ NoRelationship(Delayed[1], "route")
    /\ t_out[1].lines[1].route_id = None
    /\ t_out[1].lines[2].route_id = Some("CR-Lowell")
    /\ Matching("route", Some("CR-Lowell")) = {}
    /\ t_out[1].lines[2].route_name = None

\* C8 as claimed: the route_name of a line whose route id matches an
\* included route is the route's long name, else its short name, else the
\* route id, and so never empty.
C8_NameFallsBackToId ==
    t_out # None =>
        \A k \in 1..Len(t_out[1].lines) :
            LET line == t_out[1].lines[k]
            IN (line.route_id # None /\ Matching("route", line.route_id) # {}) =>
                 LET attrs == Found("route", line.route_id).attributes
                     long_name == Get(attrs, "long_name")
                     short_name == Get(attrs, "short_name")
                 IN /\ line.route_name # None
                    /\ line.route_name =
                          IF Present(long_name) THEN long_name
                          ELSE IF Present(short_name) THEN short_name
                          ELSE line.route_id

\* C8 as amended: the route_name of such a line is the long name if
\* present and non-empty, else the short name if present and non-empty,
\* else empty; the route id is never used.
C8_NameOrEmpty ==
    t_out # None =>
        \A k \in 1..Len(t_out[1].lines) :
            LET line == t_out[1].lines[k]
            IN Matching("route", line.route_id) # {} =>
                 LET attrs == Found("route", line.route_id).attributes
                     long_name == Get(attrs, "long_name")
                     short_name == Get(attrs, "short_name")
                 IN line.route_name =
                       IF Present(long_name) THEN long_name
                       ELSE IF Present(short_name) THEN short_name
                       ELSE None

C8_Witness ==
    /\ t_out # None
    /\ t_in.included = IncNoName
    /\ \E k \in 1..Len(t_out[1].lines) :
          /\ t_out[1].lines[k].route_id = Some("CR-Fitchburg")
          /\ Matching("route", Some("CR-Fitchburg")) # {}
          /\ t_out[1].lines[k].route_name = None

\* C9: a run whose transformer wrote a clean file of no lines does not
\* fail: its load is not retried and returns 0, and the quality check
\* gives the no-delays notice.
C9_EmptyIsNotAnError ==
    \A s \in Slots :
        (/\ dr[s].state # "none"
         /\ dr[s].ti["transform_mbta_data"] = "success"
         /\ Len(clean[dr[s].clean_path[1]][1].lines) = 0) =>
            /\ dr[s].state # "failed"
            /\ dr[s].ti["load_mbta_to_warehouse"] \in {"none", "running", "success"}
            /\ dr[s].try_number["load_mbta_to_warehouse"] <= 1
            /\ dr[s].ti["load_mbta_to_warehouse"] = "success"
                  => dr[s].loaded_rows = Some(0)
            /\ dr[s].ti["mbta_data_quality_check"] = "success"
                  => dr[s].notice = "no_delays"

\* C10: whatever count the load returned, the quality check is run once,
\* never fails or is retried, gives the no-delays notice for a count <= 0
\* and the success notice otherwise, and the run ends in success.
C10_SoftQualityGate ==
    \A s \in Slots :
        LET t == "mbta_data_quality_check"
        IN /\ dr[s].ti[t] \in {"none", "running", "success"}
           /\ dr[s].try_number[t] <= 1
           /\ dr[s].state # "failed"
           /\ dr[s].ti[t] = "success" =>
                 dr[s].notice = IF dr[s].loaded_rows[1] <= 0
                                THEN "no_delays" ELSE "passed"
           /\ dr[s].ti["end"] = "success" => dr[s].ti[t] = "success"

C10_Witness ==
    \E s \in Slots :
        /\ dr[s].state = "success"
        /\ dr[s].loaded_rows[1] < 0
        /\ dr[s].notice = "no_delays"

\* C11: transform_mbta_data invoked again on the same raw payload and
\* execution_date writes the clean file it wrote before, byte for byte, and
\* the write replaces that file: the one clean file of the execution_date
\* holds what a single invocation writes.
C11_TransformIdempotent ==
    [][/\ (t_calls >= 1 /\ t_calls' = t_calls + 1) => t_out' = t_out
       /\ t_calls' >= 1 => t_out' = Some(to_csv(Transform(t_in', "d1")))]_vars

C11_Witness ==
    /\ t_calls = 2
    /\ t_out # None
    /\ Len(t_out[1].lines) = 2

\* The lines of a file that may be absent.
Lines(file) == IF file = None THEN <<>> ELSE file[1].lines

\* C12: whatever the warehouse held, the value a completed load returned is
\* the number of rows of the clean file it loaded, which is the number of
\* rows the warehouse gained, not the number of rows the warehouse holds.
C12_ReturnsCleanRowCount ==
    \A s \in Slots :
        dr[s].ti["load_mbta_to_warehouse"] = "success" =>
            /\ dr[s].loaded_rows = Some(Len(Lines(clean[dr[s].clean_path[1]])))
            /\ dr[s].loaded_rows =
                  Some(Len(Lines(warehouse)) - Len(Lines(dr[s].w0)))

C12_Witness ==
    \E s \in Slots :
        /\ dr[s].ti["load_mbta_to_warehouse"] = "success"
        /\ Len(Lines(dr[s].w0)) = 2
        /\ dr[s].loaded_rows = Some(1)
        /\ Len(Lines(warehouse)) = 3

IsSuffix(a, b) ==
    Len(a) <= Len(b) /\ SubSeq(b, Len(b) - Len(a) + 1, Len(b)) = a

\* C13: a load that completes on a warehouse whose last rows are already
\* the rows of its clean file (the load before it was of the same clean
\* file) leaves the warehouse ending with those rows twice over; whatever
\* the warehouse holds, it grows by every row of the clean file, none being
\* taken as already present.
C13_LoadNotIdempotent ==
    [][\A s \in Slots :
          (/\ dr[s].ti["load_mbta_to_warehouse"] = "running"
           /\ dr'[s].ti["load_mbta_to_warehouse"] = "success")
             => LET rows == CleanRows(dr[s].clean_path[1])
                IN /\ Len(WarehouseRows') = Len(WarehouseRows) + Len(rows)
                   /\ IsSuffix(rows, WarehouseRows)
                         => IsSuffix(rows \o rows, WarehouseRows')]_vars

C13_Witness ==
    \E s \in Slots :
        /\ dr[s].ti["load_mbta_to_warehouse"] = "success"
        /\ dr[s].id = Some("d1")
        /\ Len(CleanRows("d1")) = 2
        /\ WarehouseRows = CleanRows("d1") \o CleanRows("d1")

\* C14: with two runs in flight, a run whose load is about to read the
\* warehouse is never held back while the other run's load stands between
\* its read and its write, and the warehouse never holds more rows than the
\* completed loads contributed; it can hold fewer, the rows of one of two
\* completed loads being absent (C14_Witness).
C14_LostUpdate ==
    /\ \A s \in Slots : \A o \in Slots \ {s} :
          (/\ Running(s, "load_mbta_to_warehouse")
           /\ dr[s].df_all = None
           /\ Running(o, "load_mbta_to_warehouse")
           /\ dr[o].df_all # None)
             => ENABLED load_read(s)
    /\ Len(Lines(warehouse)) <= Sum(loads)

C14_Witness ==
    /\ \A s \in Slots : dr[s].ti["load_mbta_to_warehouse"] = "success"
    /\ \A s \in Slots : dr[s].loaded_rows # Some(0)
    /\ Len(Lines(warehouse)) < Sum(loads)
    /\ \E s \in Slots :
          \A i \in 1..Len(WarehouseRows) :
              WarehouseRows[i].execution_date # dr[s].id

\* C15: while the extraction of a run stands succeeded, the one raw file of
\* its execution_date holds exactly the payload that extraction decoded,
\* whatever an earlier attempt or run of the same execution_date had
\* written there; an extraction attempt changes no raw file of another
\* execution_date, and an attempt that raises changes no raw file at all.
C15_ExtractIdempotent ==
    /\ [](\A s \in Slots :
            dr[s].ti["extract_mbta_predictions"] = "success" =>
               /\ dr[s].payload # None
               /\ raw[dr[s].id[1]] = dr[s].payload)
    /\ [][\A s \in Slots :
            (/\ dr[s].ti["extract_mbta_predictions"] = "running"
             /\ dr'[s].ti["extract_mbta_predictions"] # "running")
               => /\ \A d \in RunIds \ {dr[s].id[1]} : raw'[d] = raw[d]
                  /\ dr'[s].ti["extract_mbta_predictions"] # "success"
                        => raw' = raw]_vars

C15_Witness ==
    \E s \in Slots :
        /\ dr[s].id = Some("d1")
        /\ dr[s].run >= 2
        /\ dr[s].ti["extract_mbta_predictions"] = "success"
        /\ raw["d2"] # None
        /\ raw["d1"][1].wellformed
        /\ clean["d1"] # None
        /\ clean["d1"] # Some(to_csv(Transform(raw["d1"][1], "d1")))

\* The attempt of task t of the run in slot s ends in this step.
Completes(s, t) == dr[s].ti[t] = "running" /\ dr'[s].ti[t] # "running"

\* C18: a step of transform_mbta_data leaves every raw file and the
\* warehouse as they were and changes no clean file but that of its
\* execution_date; a step of extract_mbta_predictions leaves every clean file
\* and the warehouse as they were and changes no raw file but that of its
\* execution_date; check_mbta_api and mbta_data_quality_check change no
\* file; a step of load_mbta_to_warehouse changes no raw or clean file, and
\* the warehouse changes only in a step that completes a load.
C18_StagesWriteOwnArtifact ==
    [][/\ \A s \in Slots :
            Completes(s, "transform_mbta_data") =>
               /\ raw' = raw
               /\ warehouse' = warehouse
               /\ \A d \in RunIds \ {dr[s].id[1]} : clean'[d] = clean[d]
       /\ \A s \in Slots :
            Completes(s, "extract_mbta_predictions") =>
               /\ clean' = clean
               /\ warehouse' = warehouse
               /\ \A d \in RunIds \ {dr[s].id[1]} : raw'[d] = raw[d]
       /\ \A s \in Slots :
            (Completes(s, "check_mbta_api") \/ Completes(s, "mbta_data_quality_check"))
               => raw' = raw /\ clean' = clean /\ warehouse' = warehouse
       /\ \A s \in Slots :
            (Running(s, "load_mbta_to_warehouse") /\ dr'[s] # dr[s])
               => raw' = raw /\ clean' = clean
       /\ warehouse' # warehouse
            => \E s \in Slots : Completes(s, "load_mbta_to_warehouse")]_vars

C18_Witness ==
    \E s \in Slots :
        /\ dr[s].id = Some("d2")
        /\ dr[s].ti["transform_mbta_data"] = "success"
        /\ dr[s].ti["load_mbta_to_warehouse"] = "none"
        /\ Len(Lines(clean["d2"])) > 0
        /\ Len(Lines(clean["d1"])) > 0
        /\ clean["d1"] # clean["d2"]
        /\ Len(Lines(warehouse)) > 0

EarlyStages == {"check_mbta_api", "extract_mbta_predictions", "transform_mbta_data"}

\* C19: a run in which check_mbta_api, extract_mbta_predictions or
\* transform_mbta_data has failed finds and leaves the warehouse file as it
\* was when the run was created, whatever raw or clean file it wrote; the
\* warehouse differs from what it was at the creation of the run only once
\* the load of that run was attempted.
C19_EarlyFailureKeepsWarehouse ==
    \A s \in Slots :
        /\ (\E t \in EarlyStages : dr[s].ti[t] = "failed")
              => /\ warehouse = dr[s].w0
                 /\ dr[s].try_number["load_mbta_to_warehouse"] = 0
        /\ (dr[s].run > 0 /\ warehouse # dr[s].w0)
              => dr[s].try_number["load_mbta_to_warehouse"] > 0

C19_Witness ==
    \E s \in Slots :
        /\ dr[s].state = "failed"
        /\ dr[s].id = Some("d2")
        /\ dr[s].ti["transform_mbta_data"] = "failed"
        /\ raw["d2"] # None
        /\ clean["d2"] = None
        /\ Len(Lines(warehouse)) > 0

\* The letters and digits among the characters of a text.
Letters == {"a", "A", "U+00E9"}

Digits == {"1"}

\* Two characters that are the same letter or digit, case set aside.
SameIgnoringCase(c, d) == c = d \/ {c, d} = {"a", "A"}

ReadsTheSameBackwards(s) ==
    \A i \in 1..Len(s) : SameIgnoringCase(s[i], s[Len(s) + 1 - i])

\* C16: is_palindrome(text) is true exactly when the letters and digits of
\* the text, in their order, every other character left out and case set
\* aside, read the same forwards and backwards (so it is true of a text with
\* no letter or digit).
C16_PalindromeOfLettersAndDigits ==
    pal # None =>
        (pal[1] <=>
            ReadsTheSameBackwards(
                SelectSeq(text, LAMBDA c : c \in Letters \cup Digits)))

\* The text with its upper-case letters replaced by their lower-case ones.
Folded(t) == [i \in 1..Len(t) |-> IF t[i] = "A" THEN "a" ELSE t[i]]

\* The last position of the run of characters of w that starts at i.
RunEnd(t, i, w) ==
    CHOOSE j \in i..Len(t) :
        /\ \A k \in i..j : t[k] \in w
        /\ j = Len(t) \/ t[j + 1] \notin w

\* The words of t from position i on, in their order, a word being a run
\* of characters of w as long as can be, or two such runs with nothing but
\* one character of joiners between them, the runs being paired from the
\* left.
RECURSIVE WordsFrom(_, _, _, _)
WordsFrom(t, i, w, joiners) ==
    IF i > Len(t) THEN <<>>
    ELSE IF t[i] \notin w THEN WordsFrom(t, i + 1, w, joiners)
    ELSE LET j == RunEnd(t, i, w)
         IN IF j + 2 <= Len(t) /\ t[j + 1] \in joiners /\ t[j + 2] \in w
            THEN LET k == RunEnd(t, j + 2, w)
                 IN <<SubSeq(t, i, k)>> \o WordsFrom(t, k + 1, w, joiners)
            ELSE <<SubSeq(t, i, j)>> \o WordsFrom(t, j + 1, w, joiners)

Occurrences(ws, x) == Cardinality({i \in 1..Len(ws) : ws[i] = x})

\* r is what the claim gives for the words ws: None when there is no
\* word, else a word no other word occurs more often than, and the one that
\* comes first among those that occur as often.
IsFirstMostCommon(r, ws) ==
    IF ws = <<>> THEN r = None
    ELSE /\ r # None
         /\ \E i \in 1..Len(ws) :
               /\ ws[i] = r[1]
               /\ \A j \in 1..Len(ws) :
                     Occurrences(ws, ws[j]) <= Occurrences(ws, r[1])
               /\ \A j \in 1..(i - 1) :
                     Occurrences(ws, ws[j]) < Occurrences(ws, r[1])

\* C17 as stated: most_common_word(text) is, in lower case, the first of
\* the most frequent words of the text, case set aside, the words being
\* the runs of letters and digits that punctuation and whitespace separate;
\* None when the text has no word.
C17_MostCommonWord ==
    mcw # None =>
        IsFirstMostCommon(mcw[1],
            WordsFrom(Folded(text), 1, {"a", "1"}, {}))

\* C17, amended: the same, the words being the runs of letters, digits and
\* underscores as long as can be, where a run, one apostrophe and the run
\* right after it make one word (paired from the left); every other
\* punctuation and whitespace separates words.
C17_MostCommonToken ==
    mcw # None =>
        IsFirstMostCommon(mcw[1],
            WordsFrom(Folded(text), 1, {"a", "1", "_"}, {"'"}))

C17_Witness ==
    /\ text = <<"1", "'", "a", ",", "A">>
    /\ mcw = Some(Some(<<"1", "'", "a">>))

====
